---- MODULE Spec2Model ----
(***************************************************************************)
(* Four-way signalised intersection of src/main.py: the TrafficController  *)
(* (phase cycle, emergency queue, override), the VehicleManager / Vehicle  *)
(* (spawn spacing, stop line, motion, despawn) and the TrafficUI lifecycle *)
(* handlers that tie them together.                                        *)
(***************************************************************************)
EXTENDS Integers, Sequences, FiniteSets, TLC

(***************************************************************************)
(* Bounds of the model.                                                    *)
(***************************************************************************)
MaxQueue == 2      \* longest emergency queue explored
MaxTime == 0       \* time.time() returns a stamp in 0..MaxTime
MaxStamp == 1      \* stamps of the requests of a drawn queue lie in 0..MaxStamp
MaxPending == 1    \* most _tick callbacks outstanding in the Tk event queue
MaxRequests == 1   \* add_emergency calls in a run of the controller alone
MaxCount == 3      \* vehicles spawned in a run of the whole program
MaxFrames == 2     \* animation frames in a run of the whole program
MaxTicks == 2      \* working ticks per phase in a run of the whole program
MaxOffset == 2     \* drawn positions lie within MaxOffset half pixels of a landmark

(***************************************************************************)
(* Configuration (src/main.py lines 23-41).                                *)
(***************************************************************************)
GREEN_TIME == 8
YELLOW_TIME == 2
EMERGENCY_TIME == 8

Directions == {"north", "south", "east", "west"}
EmergencyTypes == {"ambulance", "firetruck"}
VehicleTypes == {"car", "ambulance", "firetruck"}
None == "None"

(***************************************************************************)
(* Python floats.  The two timers are IEEE-754 doubles that start at an    *)
(* integer and lose CHECK_INTERVAL / 1000.0 per tick.  Every value they    *)
(* take is a multiple of 2^-54, so a double v is the pair <<hi, lo>> with  *)
(* v = (hi * 2^28 + lo) * 2^-54 and 0 <= lo < 2^28 (hi carries the sign).  *)
(***************************************************************************)
LimbBase == 268435456

\* float(n) for a small integer n: n * 2^54 = (n * 2^26) * 2^28
FromInt(n) == <<n * 67108864, 0>>

\* CHECK_INTERVAL / 1000.0 = 200 / 1000.0 = 0x1.999999999999ap-3,
\* the double nearest to 0.2: 3602879701896397 * 2^-54
TickSeconds == <<13421772, 214748365>>

\* ulp of a double v >= 0 in units of 2^-54: 53 significant bits
Ulp(v) ==
  IF v[1] >= 268435456 THEN 16       \* 4 <= v < 8
  ELSE IF v[1] >= 134217728 THEN 8   \* 2 <= v < 4
  ELSE IF v[1] >= 67108864 THEN 4    \* 1 <= v < 2
  ELSE IF v[1] >= 33554432 THEN 2    \* 0.5 <= v < 1
  ELSE 1                             \* |v| < 0.5: every multiple of 2^-54

\* round to nearest, ties to even, at the precision of the value
RoundNearestEven(v) ==
  LET u == Ulp(v)
      r == v[2] % u
      down == v[2] - r
      lo == IF 2 * r < u THEN down
            ELSE IF 2 * r > u THEN down + u
            ELSE IF (down \div u) % 2 = 0 THEN down ELSE down + u
  IN IF lo = LimbBase THEN <<v[1] + 1, 0>> ELSE <<v[1], lo>>

\* a - b on doubles: the exact difference, then rounded
FSub(a, b) ==
  LET lo == a[2] - b[2]
      exact == IF lo < 0 THEN <<a[1] - b[1] - 1, lo + LimbBase>>
               ELSE <<a[1] - b[1], lo>>
  IN RoundNearestEven(exact)

\* v <= 0
FLeqZero(v) == v[1] < 0 \/ (v[1] = 0 /\ v[2] = 0)

(***************************************************************************)
(* Signal maps written by the controller.                                  *)
(***************************************************************************)
AllRed == [d \in Directions |-> "red"]
NSGreenMap == [d \in Directions |-> IF d \in {"north", "south"} THEN "green" ELSE "red"]
NSYellowMap == [d \in Directions |-> IF d \in {"north", "south"} THEN "yellow" ELSE "red"]
EWGreenMap == [d \in Directions |-> IF d \in {"east", "west"} THEN "green" ELSE "red"]
EWYellowMap == [d \in Directions |-> IF d \in {"east", "west"} THEN "yellow" ELSE "red"]

\* dict.update: the keys of upd are overwritten, the others kept
DictUpdate(signals, upd) ==
  [d \in Directions |-> IF d \in DOMAIN upd THEN upd[d] ELSE signals[d]]

(***************************************************************************)
(* TrafficController                                                       *)
(***************************************************************************)
TrafficController_init ==
  [signals |-> AllRed,
   emergency_queue |-> <<>>,
   cycle_state |-> "ns_green",
   state_timer |-> FromInt(GREEN_TIME),
   override_active |-> FALSE,
   override_direction |-> None,
   override_timer |-> FromInt(0),
   running |-> FALSE]

set_ns_green(c) ==
  [c EXCEPT !.cycle_state = "ns_green",
            !.state_timer = FromInt(GREEN_TIME),
            !.signals = DictUpdate(@, NSGreenMap)]

set_ns_yellow(c) ==
  [c EXCEPT !.cycle_state = "ns_yellow",
            !.state_timer = FromInt(YELLOW_TIME),
            !.signals = DictUpdate(@, NSYellowMap)]

set_ew_green(c) ==
  [c EXCEPT !.cycle_state = "ew_green",
            !.state_timer = FromInt(GREEN_TIME),
            !.signals = DictUpdate(@, EWGreenMap)]

set_ew_yellow(c) ==
  [c EXCEPT !.cycle_state = "ew_yellow",
            !.state_timer = FromInt(YELLOW_TIME),
            !.signals = DictUpdate(@, EWYellowMap)]

\* add_emergency that puts the request at the head of the queue
add_emergency_Front(c, direction, vehicle_type, now) ==
  [c EXCEPT !.emergency_queue =
     <<[direction |-> direction, type |-> vehicle_type, time |-> now]>> \o @]

add_emergency(c, direction, vehicle_type, now) ==
  [c EXCEPT !.emergency_queue =
     Append(@, [direction |-> direction, type |-> vehicle_type, time |-> now])]

\* the sort key (0 if x["type"] == "ambulance" else 1, x["time"]), compared as tuples
PriorityKey(x) == <<IF x.type = "ambulance" THEN 0 ELSE 1, x.time>>
KeyLess(a, b) == a[1] < b[1] \/ (a[1] = b[1] /\ a[2] < b[2])

\* sorted(queue, key=...): stable, so an element goes after those with an equal key
RECURSIVE InsertSorted(_, _)
InsertSorted(x, s) ==
  IF s = <<>> THEN <<x>>
  ELSE IF KeyLess(PriorityKey(x), PriorityKey(Head(s))) THEN <<x>> \o s
  ELSE <<Head(s)>> \o InsertSorted(x, Tail(s))

RECURSIVE Sorted(_)
Sorted(q) ==
  IF q = <<>> THEN <<>>
  ELSE InsertSorted(q[Len(q)], Sorted(SubSeq(q, 1, Len(q) - 1)))

\* the None that get_next_emergency returns for an empty queue
NoEmergency == [direction |-> None, type |-> None, time |-> -1]

\* get_next_emergency with the sort key reduced to x["time"]
get_next_emergency_ByTime(c) ==
  IF c.emergency_queue = <<>> THEN NoEmergency
  ELSE LET q == c.emergency_queue
       IN q[CHOOSE i \in 1..Len(q) :
              \A j \in 1..Len(q) : q[j].time > q[i].time \/ (q[j].time = q[i].time /\ j >= i)]

\* get_next_emergency with the sort reversed inside a class: newest first
get_next_emergency_NewestFirst(c) ==
  IF c.emergency_queue = <<>> THEN NoEmergency
  ELSE LET q == c.emergency_queue
           rank(x) == IF x.type = "ambulance" THEN 0 ELSE 1
       IN q[CHOOSE i \in 1..Len(q) :
              \A j \in 1..Len(q) :
                \/ rank(q[j]) > rank(q[i])
                \/ (rank(q[j]) = rank(q[i]) /\ q[j].time < q[i].time)
                \/ (rank(q[j]) = rank(q[i]) /\ q[j].time = q[i].time /\ j <= i)]

\* get_next_emergency that only ever returns an ambulance
get_next_emergency_AmbulanceOnly(c) ==
  IF c.emergency_queue = <<>> THEN NoEmergency
  ELSE IF Sorted(c.emergency_queue)[1].type = "ambulance" THEN Sorted(c.emergency_queue)[1]
  ELSE NoEmergency

get_next_emergency(c) ==
  IF c.emergency_queue = <<>> THEN NoEmergency
  ELSE Sorted(c.emergency_queue)[1]

\* deque.remove(x): drops the first element equal to x
RECURSIVE RemoveFirst(_, _)
RemoveFirst(q, x) ==
  IF q = <<>> THEN <<>>
  ELSE IF Head(q) = x THEN Tail(q)
  ELSE <<Head(q)>> \o RemoveFirst(Tail(q), x)

InQueue(q, x) == \E i \in 1..Len(q) : q[i] = x

\* the queue without any element equal to x
RECURSIVE RemoveAll(_, _)
RemoveAll(q, x) ==
  IF q = <<>> THEN <<>>
  ELSE IF Head(q) = x THEN RemoveAll(Tail(q), x)
  ELSE <<Head(q)>> \o RemoveAll(Tail(q), x)

\* serve_emergency that drops every request equal to the served one
serve_emergency_DropsEqual(c, emergency) ==
  [c EXCEPT !.emergency_queue = RemoveAll(@, emergency),
            !.override_active = TRUE,
            !.override_direction = emergency.direction,
            !.override_timer = FromInt(EMERGENCY_TIME),
            !.signals = IF emergency.direction \in {"north", "south"}
                        THEN DictUpdate(@, NSGreenMap)
                        ELSE DictUpdate(@, EWGreenMap)]

\* serve_emergency that turns the request's axis green and leaves the cross axis
serve_emergency_CrossKept(c, emergency) ==
  LET q == IF InQueue(c.emergency_queue, emergency)
           THEN RemoveFirst(c.emergency_queue, emergency)
           ELSE c.emergency_queue
  IN [c EXCEPT !.emergency_queue = q,
               !.override_active = TRUE,
               !.override_direction = emergency.direction,
               !.override_timer = FromInt(EMERGENCY_TIME),
               !.signals = [d \in Directions |->
                              IF (d \in {"north", "south"}) = (emergency.direction \in {"north", "south"})
                              THEN "green" ELSE @[d]]]

serve_emergency(c, emergency) ==
  LET q == IF InQueue(c.emergency_queue, emergency)
           THEN RemoveFirst(c.emergency_queue, emergency)
           ELSE c.emergency_queue
  IN [c EXCEPT !.emergency_queue = q,
               !.override_active = TRUE,
               !.override_direction = emergency.direction,
               !.override_timer = FromInt(EMERGENCY_TIME),
               !.signals = IF emergency.direction \in {"north", "south"}
                           THEN DictUpdate(@, NSGreenMap)
                           ELSE DictUpdate(@, EWGreenMap)]

\* keeps the requests whose direction differs from dir
RECURSIVE OtherDirections(_, _)
OtherDirections(q, dir) ==
  IF q = <<>> THEN <<>>
  ELSE IF Head(q).direction # dir THEN <<Head(q)>> \o OtherDirections(Tail(q), dir)
  ELSE OtherDirections(Tail(q), dir)

\* end_override that resumes the interrupted phase instead of calling set_ns_green
end_override_Resume(c) ==
  LET c1 == [c EXCEPT !.override_active = FALSE,
                      !.override_direction = None,
                      !.override_timer = FromInt(0)]
  IN IF c1.cycle_state = "ns_green" THEN [c1 EXCEPT !.signals = DictUpdate(@, NSGreenMap)]
     ELSE IF c1.cycle_state = "ns_yellow" THEN [c1 EXCEPT !.signals = DictUpdate(@, NSYellowMap)]
     ELSE IF c1.cycle_state = "ew_green" THEN [c1 EXCEPT !.signals = DictUpdate(@, EWGreenMap)]
     ELSE [c1 EXCEPT !.signals = DictUpdate(@, EWYellowMap)]

\* override_direction is cleared before it is tested, so the filter never runs
end_override(c) ==
  LET c1 == [c EXCEPT !.override_active = FALSE,
                      !.override_direction = None,
                      !.override_timer = FromInt(0)]
      c2 == IF c1.override_direction # None
            THEN [c1 EXCEPT !.emergency_queue = OtherDirections(@, c1.override_direction)]
            ELSE c1
  IN set_ns_green(c2)

\* the cycle without its yellow phases
NextPhase_NoYellow(c) ==
  IF c.cycle_state \in {"ns_green", "ns_yellow"} THEN set_ew_green(c)
  ELSE set_ns_green(c)

\* the transition taken when state_timer has lapsed
NextPhase(c) ==
  IF c.cycle_state = "ns_green" THEN set_ns_yellow(c)
  ELSE IF c.cycle_state = "ns_yellow" THEN set_ew_green(c)
  ELSE IF c.cycle_state = "ew_green" THEN set_ew_yellow(c)
  ELSE IF c.cycle_state = "ew_yellow" THEN set_ns_green(c)
  ELSE c

\* _tick that runs the phase timer down before it looks at the queue
tick_TimerFirst(c) ==
  IF ~c.running THEN c
  ELSE IF c.override_active
  THEN LET c1 == [c EXCEPT !.override_timer = FSub(@, TickSeconds)]
       IN IF FLeqZero(c1.override_timer) THEN end_override(c1) ELSE c1
  ELSE LET c1 == [c EXCEPT !.state_timer = FSub(@, TickSeconds)]
           emergency == get_next_emergency(c1)
       IN IF emergency # NoEmergency THEN serve_emergency(c1, emergency)
          ELSE IF FLeqZero(c1.state_timer) THEN NextPhase(c1) ELSE c1

\* the body of _tick; it re-schedules itself exactly when c.running
tick(c) ==
  IF ~c.running THEN c
  ELSE IF c.override_active
  THEN LET c1 == [c EXCEPT !.override_timer = FSub(@, TickSeconds)]
       IN IF FLeqZero(c1.override_timer) THEN end_override(c1) ELSE c1
  ELSE LET emergency == get_next_emergency(c)
       IN IF emergency # NoEmergency THEN serve_emergency(c, emergency)
          ELSE LET c1 == [c EXCEPT !.state_timer = FSub(@, TickSeconds)]
               IN IF FLeqZero(c1.state_timer) THEN NextPhase(c1) ELSE c1

start(c) ==
  IF ~c.running THEN tick(set_ns_green([c EXCEPT !.running = TRUE])) ELSE c

stop(c) == [c EXCEPT !.running = FALSE]

\* the controller part of TrafficUI.reset_simulation
ResetController(c) ==
  set_ns_green([c EXCEPT !.emergency_queue = <<>>,
                         !.override_active = FALSE,
                         !.override_direction = None])

\* reset_simulation as the controller sees it: stop(), then the lines above
reset(c) == ResetController(stop(c))

(***************************************************************************)
(* Geometry.  Coordinates are kept in half pixels: every position the      *)
(* model visits is a multiple of 0.5 px, which a double holds exactly, so  *)
(* the float arithmetic on x and y is exact integer arithmetic here.       *)
(***************************************************************************)
CANVAS_W == 1000
CANVAS_H == 700
STOP_DIST == 70
VEHICLE_SPAWN_DIST == 150
VEHICLE_DESPAWN_DIST == 300
MIN_SPACING == 40
CAR_BASE_SPEED == 5    \* 2.5 px per frame
AMB_BASE_SPEED == 8    \* 4.0 px per frame
FIRE_BASE_SPEED == 7   \* 3.5 px per frame

HalfPx(px) == 2 * px

center_x == HalfPx(CANVAS_W) \div 2
center_y == HalfPx(CANVAS_H) \div 2

spawn_points ==
  [north |-> <<center_x - HalfPx(60), -HalfPx(VEHICLE_SPAWN_DIST)>>,
   south |-> <<center_x + HalfPx(60), HalfPx(CANVAS_H + VEHICLE_SPAWN_DIST)>>,
   west |-> <<-HalfPx(VEHICLE_SPAWN_DIST), center_y - HalfPx(40)>>,
   east |-> <<HalfPx(CANVAS_W + VEHICLE_SPAWN_DIST), center_y + HalfPx(40)>>]

velocities ==
  [north |-> <<0, 1>>, south |-> <<0, -1>>, west |-> <<1, 0>>, east |-> <<-1, 0>>]

\* despawn_bounds[direction], a predicate of one coordinate
despawn_bounds(direction, coord) ==
  IF direction = "north" THEN coord > HalfPx(CANVAS_H + VEHICLE_DESPAWN_DIST)
  ELSE IF direction = "south" THEN coord < -HalfPx(VEHICLE_DESPAWN_DIST)
  ELSE IF direction = "west" THEN coord > HalfPx(CANVAS_W + VEHICLE_DESPAWN_DIST)
  ELSE coord < -HalfPx(VEHICLE_DESPAWN_DIST)

(***************************************************************************)
(* Vehicle                                                                 *)
(***************************************************************************)
_get_base_speed(vehicle_type) ==
  IF vehicle_type = "car" THEN CAR_BASE_SPEED
  ELSE IF vehicle_type = "ambulance" THEN AMB_BASE_SPEED
  ELSE IF vehicle_type = "firetruck" THEN FIRE_BASE_SPEED
  ELSE CAR_BASE_SPEED

\* Vehicle.__init__; the sprite, siren and sound fields are rendering state
Vehicle(id, direction, vehicle_type) ==
  [id |-> id,
   direction |-> direction,
   vehicle_type |-> vehicle_type,
   x |-> spawn_points[direction][1],
   y |-> spawn_points[direction][2],
   stopped |-> FALSE,
   has_passed_intersection |-> FALSE]

\* signed distance to the centre along the direction of travel
distance_to_center(v) ==
  IF v.direction = "north" THEN center_y - v.y
  ELSE IF v.direction = "south" THEN v.y - center_y
  ELSE IF v.direction = "west" THEN center_x - v.x
  ELSE v.x - center_x

\* the test that sets has_passed_intersection, written per direction in the source
PastExit(v) ==
  IF v.direction = "north" THEN v.y > center_y + HalfPx(STOP_DIST)
  ELSE IF v.direction = "south" THEN v.y < center_y - HalfPx(STOP_DIST)
  ELSE IF v.direction = "west" THEN v.x > center_x + HalfPx(STOP_DIST)
  ELSE v.x < center_x - HalfPx(STOP_DIST)

should_stop(v) ==
  /\ distance_to_center(v) < HalfPx(STOP_DIST)
  /\ distance_to_center(v) > -HalfPx(STOP_DIST)

\* check_stop_signal that never releases a vehicle it has stopped in the zone
check_stop_signal_Latched(v, signals) ==
  IF should_stop(v)
  THEN [v EXCEPT !.stopped = @ \/ (signals[v.direction] # "green")]
  ELSE [v EXCEPT !.stopped = FALSE,
                 !.has_passed_intersection = IF PastExit(v) THEN TRUE ELSE @]

check_stop_signal(v, signals) ==
  IF should_stop(v)
  THEN [v EXCEPT !.stopped = (signals[v.direction] # "green")]
  ELSE [v EXCEPT !.stopped = FALSE,
                 !.has_passed_intersection = IF PastExit(v) THEN TRUE ELSE @]

\* move that ignores the speed multiplier
move_BaseSpeed(v, speed_multiplier) ==
  [v EXCEPT !.x = @ + velocities[v.direction][1] * _get_base_speed(v.vehicle_type),
            !.y = @ + velocities[v.direction][2] * _get_base_speed(v.vehicle_type)]

\* x += vx * speed * speed_multiplier, and the same for y
move(v, speed_multiplier) ==
  [v EXCEPT !.x = @ + velocities[v.direction][1] * _get_base_speed(v.vehicle_type) * speed_multiplier,
            !.y = @ + velocities[v.direction][2] * _get_base_speed(v.vehicle_type) * speed_multiplier]

(***************************************************************************)
(* VehicleManager.  A registry r holds the manager's fields and the three  *)
(* statistics variables of the UI that the manager writes.                 *)
(***************************************************************************)
VehicleManager_init ==
  [vehicles |-> <<>>,
   vehicle_count |-> 0,
   total_var |-> 0,
   amb_served_var |-> 0,
   fire_served_var |-> 0]

\* the spacing test with <= in place of <
TooClose_Inclusive(v, direction) ==
  LET dx == v.x - spawn_points[direction][1]
      dy == v.y - spawn_points[direction][2]
  IN dx * dx + dy * dy <= HalfPx(MIN_SPACING) * HalfPx(MIN_SPACING)

\* sqrt(dx*dx + dy*dy) < MIN_SPACING, decided on the squares: both are exact
\* and sqrt is monotone
TooClose(v, direction) ==
  LET dx == v.x - spawn_points[direction][1]
      dy == v.y - spawn_points[direction][2]
  IN dx * dx + dy * dy < HalfPx(MIN_SPACING) * HalfPx(MIN_SPACING)

can_spawn_at(r, direction) ==
  \A i \in 1..Len(r.vehicles) :
    r.vehicles[i].direction = direction => ~TooClose(r.vehicles[i], direction)

\* the registry after spawn_vehicle; it returns can_spawn_at(r, direction)
spawn_vehicle(r, direction, vehicle_type) ==
  IF ~can_spawn_at(r, direction) THEN r
  ELSE [r EXCEPT !.vehicles = Append(@, Vehicle(r.vehicle_count, direction, vehicle_type)),
                 !.vehicle_count = @ + 1,
                 !.total_var = r.vehicle_count + 1]

should_despawn(v) ==
  despawn_bounds(v.direction, v.x) \/ despawn_bounds(v.direction, v.y)

\* the statistics of remove_vehicle without the test of the vehicle type
CountServed_AnyClass(r, v) ==
  IF v.has_passed_intersection
  THEN IF v.vehicle_type = "ambulance"
       THEN [r EXCEPT !.amb_served_var = @ + 1]
       ELSE [r EXCEPT !.fire_served_var = @ + 1]
  ELSE r

\* the statistics part of remove_vehicle
CountServed(r, v) ==
  IF v.vehicle_type \in {"ambulance", "firetruck"} /\ v.has_passed_intersection
  THEN IF v.vehicle_type = "ambulance"
       THEN [r EXCEPT !.amb_served_var = @ + 1]
       ELSE [r EXCEPT !.fire_served_var = @ + 1]
  ELSE r

RECURSIVE WithoutId(_, _)
WithoutId(vs, id) ==
  IF vs = <<>> THEN <<>>
  ELSE IF Head(vs).id = id THEN Tail(vs)
  ELSE <<Head(vs)>> \o WithoutId(Tail(vs), id)

\* remove_vehicle(vehicle) for a vehicle of the list
remove_vehicle(r, v) ==
  IF \E i \in 1..Len(r.vehicles) : r.vehicles[i].id = v.id
  THEN [CountServed(r, v) EXCEPT !.vehicles = WithoutId(@, v.id)]
  ELSE r

\* one pass of the loop body of update_vehicles on the vehicle v
UpdateOne(v, signals, speed_multiplier) ==
  LET checked == check_stop_signal(v, signals)
  IN IF ~checked.stopped THEN move(checked, speed_multiplier) ELSE checked

RECURSIVE ReplaceId(_, _)
ReplaceId(vs, v) ==
  IF vs = <<>> THEN <<>>
  ELSE IF Head(vs).id = v.id THEN <<v>> \o Tail(vs)
  ELSE <<Head(vs)>> \o ReplaceId(Tail(vs), v)

\* the loop of update_vehicles over the snapshot self.vehicles[:]
RECURSIVE UpdateLoop(_, _, _, _)
UpdateLoop(r, snapshot, signals, speed_multiplier) ==
  IF snapshot = <<>> THEN r
  ELSE LET v == UpdateOne(Head(snapshot), signals, speed_multiplier)
           r1 == [r EXCEPT !.vehicles = ReplaceId(@, v)]
           r2 == IF should_despawn(v) THEN remove_vehicle(r1, v) ELSE r1
       IN UpdateLoop(r2, Tail(snapshot), signals, speed_multiplier)

update_vehicles(r, signals, speed_multiplier) ==
  UpdateLoop(r, r.vehicles, signals, speed_multiplier)

RECURSIVE ClearLoop(_, _)
ClearLoop(r, snapshot) ==
  IF snapshot = <<>> THEN r
  ELSE ClearLoop(remove_vehicle(r, Head(snapshot)), Tail(snapshot))

clear_all(r) == [ClearLoop(r, r.vehicles) EXCEPT !.vehicles = <<>>]

(***************************************************************************)
(* State                                                                   *)
(***************************************************************************)
VARIABLES
  controller,    \* the TrafficController object
  tick_pending,  \* _tick callbacks scheduled with root.after and not yet run
  registry,      \* the VehicleManager object and the statistics variables
  ui,            \* TrafficUI: is_running, animation_id, spawn_id, speed_var
  phase_ticks,   \* observer: working ticks spent in the current phase or override
  enqueued,      \* observer: add_emergency calls so far
  frames,        \* observer: update_vehicles passes so far
  served         \* observer: the requests passed to serve_emergency, in order

vars == <<controller, tick_pending, registry, ui, phase_ticks, enqueued, frames, served>>

TrafficUI_init ==
  [is_running |-> FALSE, animation_id |-> FALSE, spawn_id |-> FALSE, speed_var |-> 1]

\* the slider positions explored: speed_var is 1.0 or 2.0
SpeedMultipliers == {1, 2}

(***************************************************************************)
(* The handlers, as functions of the whole state w.                        *)
(***************************************************************************)
World ==
  [controller |-> controller, tick_pending |-> tick_pending, registry |-> registry,
   ui |-> ui, phase_ticks |-> phase_ticks, enqueued |-> enqueued, frames |-> frames,
   served |-> served]

Becomes(w) ==
  /\ controller' = w.controller
  /\ tick_pending' = w.tick_pending
  /\ registry' = w.registry
  /\ ui' = w.ui
  /\ phase_ticks' = w.phase_ticks
  /\ enqueued' = w.enqueued
  /\ frames' = w.frames
  /\ served' = w.served

\* phase_ticks after a working tick took the controller from c to c2
PhaseTicksAfter(c, c2, n) ==
  IF c2.override_active # c.override_active THEN 0
  ELSE IF ~c2.override_active /\ c2.cycle_state # c.cycle_state THEN 0
  ELSE n + 1

\* served after a working tick took the controller from c to c2: a tick that
\* starts an override has served the request get_next_emergency chose
ServedAfter(c, c2, log) ==
  IF ~c.override_active /\ c2.override_active
  THEN Append(log, get_next_emergency(c))
  ELSE log

\* _tick without the test of self.running
run_tick_Unguarded(w) ==
  LET c2 == tick([w.controller EXCEPT !.running = TRUE])
  IN [w EXCEPT !.controller = [c2 EXCEPT !.running = w.controller.running],
               !.tick_pending = @ + 1,
               !.phase_ticks = PhaseTicksAfter(w.controller, c2, @),
               !.served = ServedAfter(w.controller, c2, @)]

\* a call of _tick: the controller's step, and the callback it schedules when running
run_tick(w) ==
  IF ~w.controller.running THEN w
  ELSE LET c2 == tick(w.controller)
       IN [w EXCEPT !.controller = c2,
                    !.tick_pending = @ + 1,
                    !.phase_ticks = PhaseTicksAfter(w.controller, c2, @),
                    !.served = ServedAfter(w.controller, c2, @)]

\* the scheduled _tick callback fires
tick_callback(w) == run_tick([w EXCEPT !.tick_pending = @ - 1])

\* start that schedules the first _tick instead of running it
controller_start_TickDeferred(w) ==
  IF w.controller.running THEN w
  ELSE LET c1 == set_ns_green([w.controller EXCEPT !.running = TRUE])
       IN [w EXCEPT !.controller = c1,
                    !.tick_pending = @ + 1,
                    !.phase_ticks = IF c1.override_active THEN @ ELSE 0]

\* TrafficController.start
controller_start(w) ==
  IF w.controller.running THEN w
  ELSE LET c1 == set_ns_green([w.controller EXCEPT !.running = TRUE])
       IN run_tick([w EXCEPT !.controller = c1,
                             !.phase_ticks = IF c1.override_active THEN @ ELSE 0])

\* TrafficUI.start_spawning; random_direction is the outcome of random.choice
start_spawning(w, random_direction) ==
  IF ~w.ui.is_running THEN w
  ELSE [w EXCEPT !.registry = spawn_vehicle(@, random_direction, "car"),
                 !.ui.spawn_id = TRUE]

\* TrafficUI.start_animation
start_animation(w) ==
  IF ~w.ui.is_running THEN w
  ELSE [w EXCEPT !.registry = update_vehicles(@, w.controller.signals, w.ui.speed_var),
                 !.ui.animation_id = TRUE,
                 !.frames = @ + 1]

start_simulation(w, random_direction) ==
  IF w.ui.is_running THEN w
  ELSE start_animation(
         start_spawning(
           controller_start([w EXCEPT !.ui.is_running = TRUE]),
           random_direction))

stop_simulation(w) ==
  IF ~w.ui.is_running THEN w
  ELSE [w EXCEPT !.ui.is_running = FALSE,
                 !.controller = stop(@),
                 !.ui.animation_id = FALSE,
                 !.ui.spawn_id = FALSE]

\* reset_simulation that leaves the override flag and direction as they are
reset_simulation_OverrideKept(w) ==
  LET w1 == stop_simulation(w)
  IN [w1 EXCEPT !.registry = [clear_all(@) EXCEPT !.total_var = 0,
                                                  !.amb_served_var = 0,
                                                  !.fire_served_var = 0],
                !.controller = set_ns_green([@ EXCEPT !.emergency_queue = <<>>]),
                !.phase_ticks = 0]

reset_simulation(w) ==
  LET w1 == stop_simulation(w)
  IN [w1 EXCEPT !.registry = [clear_all(@) EXCEPT !.total_var = 0,
                                                  !.amb_served_var = 0,
                                                  !.fire_served_var = 0],
                !.controller = ResetController(@),
                !.phase_ticks = 0]

\* spawn_emergency_vehicle that enqueues the request whatever spawn_vehicle returned
spawn_emergency_vehicle_AlwaysEnqueue(w, direction, vehicle_type, now, random_direction) ==
  LET w1 == [w EXCEPT !.registry = spawn_vehicle(@, direction, vehicle_type),
                      !.controller = add_emergency(@, direction, vehicle_type, now),
                      !.enqueued = @ + 1]
  IN IF ~w1.ui.is_running THEN start_simulation(w1, random_direction) ELSE w1

spawn_emergency_vehicle(w, direction, vehicle_type, now, random_direction) ==
  IF can_spawn_at(w.registry, direction)
  THEN LET w1 == [w EXCEPT !.registry = spawn_vehicle(@, direction, vehicle_type),
                           !.controller = add_emergency(@, direction, vehicle_type, now),
                           !.enqueued = @ + 1]
       IN IF ~w1.ui.is_running THEN start_simulation(w1, random_direction) ELSE w1
  ELSE w

(***************************************************************************)
(* The controller alone: its methods called in any order.                  *)
(***************************************************************************)
Init ==
  /\ controller = TrafficController_init
  /\ tick_pending = 0
  /\ registry = VehicleManager_init
  /\ ui = TrafficUI_init
  /\ phase_ticks = 0
  /\ enqueued = 0
  /\ frames = 0
  /\ served = <<>>

Start ==
  /\ ~controller.running
  /\ tick_pending < MaxPending
  /\ Becomes(controller_start(World))

Stop ==
  /\ controller.running
  /\ Becomes([World EXCEPT !.controller = stop(@)])

Reset ==
  Becomes([World EXCEPT !.controller = reset(@), !.phase_ticks = 0])

AddEmergency ==
  \E d \in Directions, t \in EmergencyTypes, now \in 0..MaxTime :
    /\ enqueued < MaxRequests
    /\ Becomes([World EXCEPT !.controller = add_emergency(@, d, t, now),
                             !.enqueued = @ + 1])

\* a scheduled _tick callback runs
Tick ==
  /\ tick_pending > 0
  /\ Becomes(tick_callback(World))

NextController == Start \/ Stop \/ Reset \/ AddEmergency \/ Tick

SpecController == Init /\ [][NextController]_vars

(***************************************************************************)
(* The controller started on a queue that add_emergency calls have filled: *)
(* the queue is drawn from the sequences of at most MaxQueue requests.     *)
(***************************************************************************)
Requests ==
  [direction : Directions, type : EmergencyTypes, time : 0..MaxStamp]

RECURSIVE SeqsUpTo(_, _)
SeqsUpTo(S, n) ==
  IF n = 0 THEN {<<>>}
  ELSE LET shorter == SeqsUpTo(S, n - 1)
       IN shorter \cup {Append(q, x) : q \in shorter, x \in S}

InitQueue ==
  /\ \E q \in SeqsUpTo(Requests, MaxQueue) :
       /\ controller = [TrafficController_init EXCEPT !.emergency_queue = q]
       /\ enqueued = Len(q)
  /\ tick_pending = 0
  /\ registry = VehicleManager_init
  /\ ui = TrafficUI_init
  /\ phase_ticks = 0
  /\ frames = 0
  /\ served = <<>>

NextQueue == Start \/ Stop \/ Tick

SpecQueue == InitQueue /\ [][NextQueue]_vars

(***************************************************************************)
(* The whole program: the handlers of TrafficUI and the Tk callbacks.      *)
(***************************************************************************)
Within(w) ==
  /\ w.tick_pending <= MaxPending
  /\ w.phase_ticks <= MaxTicks
  /\ w.frames <= MaxFrames
  /\ w.registry.vehicle_count <= MaxCount
  /\ Len(w.controller.emergency_queue) <= MaxQueue

StartSimulation ==
  \E rd \in Directions :
    /\ ~ui.is_running
    /\ \E w2 \in {start_simulation(World, rd)} : Within(w2) /\ Becomes(w2)

StopSimulation ==
  /\ ui.is_running
  /\ Becomes(stop_simulation(World))

ResetSimulation ==
  Becomes(reset_simulation(World))

SpawnEmergencyVehicle ==
  \E d \in Directions, t \in EmergencyTypes, now \in 0..MaxTime,
     rd \in IF ui.is_running THEN {"north"} ELSE Directions :
    /\ \E w2 \in {spawn_emergency_vehicle(World, d, t, now, rd)} : Within(w2) /\ Becomes(w2)

ControlTick ==
  /\ tick_pending > 0
  /\ \E w2 \in {tick_callback(World)} : Within(w2) /\ Becomes(w2)

AnimationFrame ==
  /\ ui.animation_id
  /\ \E w2 \in {start_animation(World)} : Within(w2) /\ Becomes(w2)

SpawnTimer ==
  \E rd \in Directions :
    /\ ui.spawn_id
    /\ \E w2 \in {start_spawning(World, rd)} : Within(w2) /\ Becomes(w2)

Next ==
  \/ StartSimulation \/ StopSimulation \/ ResetSimulation \/ SpawnEmergencyVehicle
  \/ ControlTick \/ AnimationFrame \/ SpawnTimer

Spec == Init /\ [][Next]_vars

(***************************************************************************)
(* The running program with one vehicle under way: the controller has just *)
(* entered a phase, and the vehicle is drawn on its lane near the spawn    *)
(* spacing limit, either edge of the stop zone or the despawn boundary.    *)
(***************************************************************************)
\* the vehicle v after it has travelled d half pixels
Travelled(v, d) ==
  [v EXCEPT !.x = @ + velocities[v.direction][1] * d,
            !.y = @ + velocities[v.direction][2] * d]

\* half pixels from the spawn point to the first position past the despawn boundary
DespawnTravel(direction) ==
  IF direction \in {"north", "south"}
  THEN HalfPx(CANVAS_H + VEHICLE_DESPAWN_DIST + VEHICLE_SPAWN_DIST)
  ELSE HalfPx(CANVAS_W + VEHICLE_DESPAWN_DIST + VEHICLE_SPAWN_DIST)

Landmarks(direction) ==
  LET to_center == distance_to_center(Vehicle(0, direction, "car"))
  IN {HalfPx(MIN_SPACING),
      to_center - HalfPx(STOP_DIST),
      to_center + HalfPx(STOP_DIST),
      DespawnTravel(direction)}

\* has_passed_intersection is set by the first evaluation past the exit line, and
\* the vehicle came to where it is by a move from where it was last evaluated: the
\* flag is set only if one base step back is past the exit line, and unset only
\* if two base steps back (speed_var = 2.0) is not
DrawnVehicles ==
  {v \in UNION {{[Travelled(Vehicle(0, d, t), l + o) EXCEPT !.has_passed_intersection = h] :
                    t \in VehicleTypes, h \in BOOLEAN,
                    l \in Landmarks(d), o \in -MaxOffset..MaxOffset} : d \in Directions} :
     /\ v.has_passed_intersection => PastExit(Travelled(v, -_get_base_speed(v.vehicle_type)))
     /\ ~v.has_passed_intersection => ~PastExit(Travelled(v, -2 * _get_base_speed(v.vehicle_type)))
     /\ ~should_despawn(v)}

\* the controller as a tick of the normal cycle leaves it on entering a phase
PhaseEntered ==
  LET c == [TrafficController_init EXCEPT !.running = TRUE]
  IN {set_ns_green(c), set_ns_yellow(c), set_ew_green(c), set_ew_yellow(c)}

InitVehicle ==
  /\ controller \in PhaseEntered
  /\ tick_pending = 1
  /\ \E v \in DrawnVehicles :
       registry = [VehicleManager_init EXCEPT !.vehicles = <<v>>,
                                             !.vehicle_count = 1,
                                             !.total_var = 1]
  /\ \E m \in SpeedMultipliers :
       ui = [is_running |-> TRUE, animation_id |-> TRUE, spawn_id |-> TRUE, speed_var |-> m]
  /\ phase_ticks = 0
  /\ enqueued = 0
  /\ frames = 0
  /\ served = <<>>

NextVehicle == AnimationFrame \/ SpawnTimer \/ ResetSimulation

SpecVehicle == InitVehicle /\ [][NextVehicle]_vars

(***************************************************************************)
(* The controller called with arbitrary strings: add_emergency takes any   *)
(* direction and any vehicle_type its caller passes.                       *)
(***************************************************************************)
AnyDirections == Directions \cup {"northeast"}
AnyTypes == EmergencyTypes \cup {"car"}

AddEmergencyAny ==
  \E d \in AnyDirections, t \in AnyTypes, now \in 0..MaxTime :
    /\ enqueued < MaxRequests
    /\ Becomes([World EXCEPT !.controller = add_emergency(@, d, t, now),
                             !.enqueued = @ + 1])

NextAnyInput == Start \/ Stop \/ Tick \/ AddEmergencyAny

SpecAnyInput == Init /\ [][NextAnyInput]_vars

(***************************************************************************)
(* The running program with one vehicle under way and the emergency        *)
(* buttons: an ambulance or a fire truck enters a lane behind the vehicle. *)
(***************************************************************************)
NextLane == AnimationFrame \/ SpawnEmergencyVehicle

SpecLane == InitVehicle /\ [][NextLane]_vars

(***************************************************************************)
(* The controller stopped and started again at any time: stop() leaves the *)
(* callback that _tick scheduled with root.after in place, and start() may *)
(* run while it is still pending.                                          *)
(***************************************************************************)
Restart ==
  /\ ~controller.running
  /\ tick_pending <= MaxPending
  /\ Becomes(controller_start(World))

NextRestart == Restart \/ Stop \/ Tick

SpecRestart == Init /\ [][NextRestart]_vars

(***************************************************************************)
(* The controller started and kept running: nothing stops it, and every    *)
(* _tick re-arms itself with root.after(CHECK_INTERVAL, self._tick), so a  *)
(* pending callback always fires in the end (weak fairness of Tick).  The  *)
(* queue is drawn before the start, as in SpecQueue.                       *)
(***************************************************************************)
\* one direction of each axis, and time.time() never runs backwards: the stamps
\* follow the order of the queue
LiveRequests == {x \in Requests : x.direction \in {"north", "west"}}

InitLive ==
  /\ \E q \in {s \in SeqsUpTo(LiveRequests, MaxQueue) : \A i \in 1..Len(s) : s[i].time = i - 1} :
       /\ controller = [TrafficController_init EXCEPT !.emergency_queue = q]
       /\ enqueued = Len(q)
  /\ tick_pending = 0
  /\ registry = VehicleManager_init
  /\ ui = TrafficUI_init
  /\ phase_ticks = 0
  /\ frames = 0
  /\ served = <<>>

NextLive == Start \/ Tick

SpecLive == InitLive /\ [][NextLive]_vars /\ WF_vars(Start) /\ WF_vars(Tick)

(***************************************************************************)
(* The Tk timeline of a running simulation with one vehicle on its way.    *)
(* Both loops re-arm themselves with root.after and nothing stops them:    *)
(* between two _tick callbacks, CHECK_INTERVAL ms apart, the animation     *)
(* callbacks that fall due, ANIM_INTERVAL ms apart, all run.  A step is    *)
(* one control period: the _tick callback, then those frames.  An          *)
(* emergency vehicle comes with the request its button enqueued.           *)
(***************************************************************************)
CHECK_INTERVAL == 200
ANIM_INTERVAL == 16
FramesPerTick == CHECK_INTERVAL \div ANIM_INTERVAL

\* n animation callbacks in a row
RECURSIVE FramesRun(_, _)
FramesRun(w, n) ==
  IF n = 0 THEN w
  ELSE CHOOSE w2 \in {FramesRun(w1, n - 1) : w1 \in {start_animation(w)}} : TRUE

\* the observer frames is left alone: it counts the frames of the bounded runs
Period(w) ==
  CHOOSE w2 \in {[FramesRun(w1, FramesPerTick) EXCEPT !.frames = w.frames] :
                   w1 \in {tick_callback(w)}} : TRUE

InitJourney ==
  /\ \E d \in Directions, t \in VehicleTypes, c \in PhaseEntered :
       /\ registry = [VehicleManager_init EXCEPT !.vehicles = <<Vehicle(0, d, t)>>,
                                                 !.vehicle_count = 1,
                                                 !.total_var = 1]
       /\ controller = IF t = "car" THEN c ELSE add_emergency(c, d, t, 0)
       /\ enqueued = IF t = "car" THEN 0 ELSE 1
  /\ tick_pending = 1
  /\ \E m \in SpeedMultipliers :
       ui = [is_running |-> TRUE, animation_id |-> TRUE, spawn_id |-> TRUE, speed_var |-> m]
  /\ phase_ticks = 0
  /\ frames = 0
  /\ served = <<>>

ControlPeriod ==
  /\ tick_pending > 0
  /\ ui.animation_id
  /\ \E w2 \in {Period(World)} : Becomes(w2)

NextJourney == ControlPeriod

SpecJourney == InitJourney /\ [][NextJourney]_vars /\ WF_vars(ControlPeriod)

(***************************************************************************)
(* Properties                                                              *)
(***************************************************************************)
GreenSet(signals) == {d \in Directions : signals[d] = "green"}

\* C1: the green directions are none, {north, south}, {east, west} or a single
\* direction: a north/south signal and an east/west signal are never green together
C1_MutualExclusion ==
  LET g == GreenSet(controller.signals)
  IN \/ g = {}
     \/ g = {"north", "south"}
     \/ g = {"east", "west"}
     \/ Cardinality(g) = 1

\* an override holds east/west green after it interrupted the running cycle
C1_Witness ==
  /\ controller.running
  /\ controller.override_active
  /\ controller.override_direction \in {"east", "west"}
  /\ GreenSet(controller.signals) = {"east", "west"}
  /\ phase_ticks > 0

TicksPerSecond == 1000 \div CHECK_INTERVAL

PhaseSeconds(phase) ==
  IF phase \in {"ns_green", "ew_green"} THEN GREEN_TIME ELSE YELLOW_TIME

SuccPhase(phase) ==
  IF phase = "ns_green" THEN "ns_yellow"
  ELSE IF phase = "ns_yellow" THEN "ew_green"
  ELSE IF phase = "ew_green" THEN "ew_yellow"
  ELSE "ns_green"

\* a control tick of the running normal cycle in a run without any emergency
QuietTick ==
  /\ enqueued' = 0
  /\ controller.running /\ controller'.running
  /\ controller' # controller

\* C2: with no emergency ever enqueued, a tick ends the phase exactly when the
\* phase has lasted its duration (GREEN_TIME or YELLOW_TIME seconds of ticks), and
\* then the next phase of ns_green, ns_yellow, ew_green, ew_yellow begins with a
\* full timer; any other tick stays in the phase
C2_PhaseCycle ==
  [][QuietTick =>
       IF phase_ticks + 1 = PhaseSeconds(controller.cycle_state) * TicksPerSecond
       THEN /\ controller'.cycle_state = SuccPhase(controller.cycle_state)
            /\ controller'.state_timer = FromInt(PhaseSeconds(controller'.cycle_state))
       ELSE controller'.cycle_state = controller.cycle_state]_vars

HasType(q, type) == \E i \in 1..Len(q) : q[i].type = type

\* the queue q without its element i
WithoutIndex(q, i) == SubSeq(q, 1, i - 1) \o SubSeq(q, i + 1, Len(q))

\* this step starts an override for the queued request i
ServesIndex(i) ==
  /\ i \in 1..Len(controller.emergency_queue)
  /\ controller'.emergency_queue = WithoutIndex(controller.emergency_queue, i)
  /\ controller'.override_direction = controller.emergency_queue[i].direction
  /\ served' = Append(served, controller.emergency_queue[i])

OverrideStarts == ~controller.override_active /\ controller'.override_active

\* C3: when an override starts while an ambulance request and a firetruck request
\* are queued, the request served is an ambulance request
C3_AmbulanceFirst ==
  [][(/\ OverrideStarts
      /\ HasType(controller.emergency_queue, "ambulance")
      /\ HasType(controller.emergency_queue, "firetruck"))
     => \E i \in 1..Len(controller.emergency_queue) :
          /\ controller.emergency_queue[i].type = "ambulance"
          /\ ServesIndex(i)]_vars

\* an ambulance that was enqueued after a firetruck, and no earlier in time, has
\* been served while the firetruck still waits
C3_Witness ==
  /\ controller.override_active
  /\ Len(served) = 1
  /\ served[1].type = "ambulance"
  /\ Len(controller.emergency_queue) = 1
  /\ controller.emergency_queue[1].type = "firetruck"
  /\ controller.emergency_queue[1].time <= served[1].time
  /\ enqueued = 2

SameType(q) == \A i, j \in 1..Len(q) : q[i].type = q[j].type

\* C4: when an override starts while all queued requests are of one class, the
\* request served has the earliest time stamp, and among those with that stamp it
\* is the one enqueued first
C4_EarliestFirst ==
  [][(/\ OverrideStarts
      /\ SameType(controller.emergency_queue))
     => \E i \in 1..Len(controller.emergency_queue) :
          /\ \A j \in 1..Len(controller.emergency_queue) :
               /\ controller.emergency_queue[j].time >= controller.emergency_queue[i].time
               /\ (controller.emergency_queue[j].time = controller.emergency_queue[i].time
                     => j >= i)
          /\ ServesIndex(i)]_vars

\* of two ambulances the one enqueued second, with the earlier stamp, went first
C4_Witness ==
  /\ controller.override_active
  /\ Len(served) = 1
  /\ served[1].type = "ambulance"
  /\ Len(controller.emergency_queue) = 1
  /\ controller.emergency_queue[1].type = "ambulance"
  /\ controller.emergency_queue[1].time > served[1].time
  /\ controller.emergency_queue[1].direction # served[1].direction
  /\ enqueued = 2

\* the state reset_simulation leaves
AfterReset ==
  /\ ~ui.is_running /\ ~ui.animation_id /\ ~ui.spawn_id
  /\ ~controller.running
  /\ registry.vehicles = <<>>
  /\ registry.total_var = 0
  /\ registry.amb_served_var = 0
  /\ registry.fire_served_var = 0
  /\ controller.emergency_queue = <<>>
  /\ ~controller.override_active
  /\ controller.override_direction = None
  /\ controller.cycle_state = "ns_green"
  /\ controller.state_timer = FromInt(GREEN_TIME)
  /\ controller.signals = NSGreenMap

\* the step is spawn_emergency_vehicle(direction, vehicle_type) on an empty road
SpawnsFirst(direction, vehicle_type) ==
  /\ registry.vehicles = <<>>
  /\ enqueued' = enqueued + 1
  /\ Len(registry'.vehicles) >= 1
  /\ registry'.vehicles[1].direction = direction
  /\ registry'.vehicles[1].vehicle_type = vehicle_type

OverrideLapses ==
  /\ controller.override_active /\ ~controller'.override_active
  /\ controller'.running

\* C6: when the override timer lapses and no request is queued, the controller is
\* in ns_green with state_timer = GREEN_TIME and north/south green, east/west red
C6_LapseToNsGreen ==
  [][(OverrideLapses /\ controller.emergency_queue = <<>>)
     => /\ controller'.cycle_state = "ns_green"
        /\ controller'.state_timer = FromInt(GREEN_TIME)
        /\ controller'.signals = NSGreenMap
        /\ controller'.override_direction = None]_vars

\* an east/west override has lapsed on an empty queue
C6_Witness ==
  /\ controller.running
  /\ ~controller.override_active
  /\ Len(served) = 1
  /\ served[1].direction \in {"east", "west"}
  /\ controller.emergency_queue = <<>>
  /\ controller.cycle_state = "ns_green"
  /\ controller.state_timer = FromInt(GREEN_TIME)
  /\ controller.signals = NSGreenMap
  /\ phase_ticks = 0

\* C7: when the override timer lapses while requests are queued, the next override
\* starts in the same tick: no step ends an override and leaves the controller in
\* the normal cycle with a request waiting
C7_ChainedOverride ==
  [][(OverrideLapses /\ controller.emergency_queue # <<>>)
     => controller'.override_active]_vars

IsEmergency(v) == v.vehicle_type \in {"ambulance", "firetruck"}

HasId(vs, id) == \E i \in 1..Len(vs) : vs[i].id = id
ById(vs, id) == vs[CHOOSE i \in 1..Len(vs) : vs[i].id = id]

\* the step runs update_vehicles, on the signal map the step leaves
FrameStep == frames' = frames + 1

\* what the frame made of the vehicle v, when it is still on the road
Survives(v) == HasId(registry'.vehicles, v.id)
After(v) == ById(registry'.vehicles, v.id)

\* C8: an emergency-class vehicle (ambulance or firetruck) is never marked stopped,
\* at any position and under any signal map
C8_EmergencyNeverStopped ==
  \A i \in 1..Len(registry.vehicles) :
    IsEmergency(registry.vehicles[i]) => ~registry.vehicles[i].stopped

\* C9: at exactly STOP_DIST a non-emergency vehicle is marked stopped
\* when its signal is red, and at STOP_DIST + 1 or more it is never marked stopped
C9_BoundaryStops ==
  [][FrameStep =>
       \A i \in 1..Len(registry.vehicles) :
         LET v == registry.vehicles[i]
         IN (~IsEmergency(v) /\ Survives(v)) =>
              /\ (/\ distance_to_center(v) = HalfPx(STOP_DIST)
                  /\ controller'.signals[v.direction] = "red") => After(v).stopped
              /\ distance_to_center(v) >= HalfPx(STOP_DIST + 1) => ~After(v).stopped]_vars

\* distance of a vehicle from the spawn point of its direction, along its lane
SpawnDistance(v) ==
  LET dx == v.x - spawn_points[v.direction][1]
      dy == v.y - spawn_points[v.direction][2]
  IN (IF dx < 0 THEN -dx ELSE dx) + (IF dy < 0 THEN -dy ELSE dy)

Blocked(direction) ==
  \E i \in 1..Len(registry.vehicles) :
    /\ registry.vehicles[i].direction = direction
    /\ SpawnDistance(registry.vehicles[i]) < HalfPx(MIN_SPACING)

\* C10: spawn_vehicle for a direction changes nothing (fails) when an active vehicle
\* of that direction is strictly closer than MIN_SPACING to the spawn point, and
\* otherwise appends a vehicle at the spawn point; vehicles of other directions
\* play no part
C10_SpawnSpacing ==
  \A d \in Directions, t \in VehicleTypes :
    LET r2 == spawn_vehicle(registry, d, t)
    IN IF Blocked(d)
       THEN r2 = registry
       ELSE /\ r2.vehicles = Append(registry.vehicles, Vehicle(registry.vehicle_count, d, t))
            /\ r2.vehicle_count = registry.vehicle_count + 1

\* a vehicle was spawned behind one that is exactly MIN_SPACING from the spawn
\* point, with a vehicle of another direction on the road
C10_Witness ==
  \E i, j, k \in 1..Len(registry.vehicles) :
    /\ registry.vehicles[i].direction = registry.vehicles[j].direction
    /\ SpawnDistance(registry.vehicles[i]) = HalfPx(MIN_SPACING)
    /\ SpawnDistance(registry.vehicles[j]) = 0
    /\ registry.vehicles[j].id > registry.vehicles[i].id
    /\ registry.vehicles[k].direction # registry.vehicles[i].direction

\* C11: a spawn request refused for spacing changes no state: spawn_vehicle leaves
\* the vehicle list and the counter as they are, and a refused
\* spawn_emergency_vehicle leaves the whole program state as it is (no request
\* enqueued, no start of the simulation, same signals and controller state)
C11_RejectedSpawnChangesNothing ==
  \A d \in Directions :
    Blocked(d) =>
      /\ \A t \in VehicleTypes : spawn_vehicle(registry, d, t) = registry
      /\ \A t \in EmergencyTypes, now \in 0..MaxTime, rd \in Directions :
           spawn_emergency_vehicle(World, d, t, now, rd) = World

\* the simulation was stopped with a vehicle still within MIN_SPACING of its spawn
\* point and nothing queued: an emergency spawn there is refused
C11_Witness ==
  /\ ~ui.is_running
  /\ ~controller.running
  /\ \E d \in Directions : Blocked(d)
  /\ controller.emergency_queue = <<>>
  /\ frames > 0

ValidRequest(x) == x.direction \in Directions /\ x.type \in EmergencyTypes

\* C12: add_emergency refuses an unknown direction or a class that is not
\* ambulance or firetruck: no such request is ever in the queue, and none is ever
\* selected for an override
C12_OnlyValidRequests ==
  /\ \A i \in 1..Len(controller.emergency_queue) : ValidRequest(controller.emergency_queue[i])
  /\ \A i \in 1..Len(served) : ValidRequest(served[i])
  /\ controller.override_active => controller.override_direction \in Directions

\* the vehicles of a class that the step removes
Removed(type) ==
  Cardinality({i \in 1..Len(registry.vehicles) :
                 /\ registry.vehicles[i].vehicle_type = type
                 /\ ~Survives(registry.vehicles[i])})

\* the vehicle after at most n more frames with nothing holding it, as
\* update_vehicles leaves it; the run ends on the frame that carries it over its
\* despawn boundary
RECURSIVE Frames(_, _, _)
Frames(v, speed_multiplier, n) ==
  IF n = 0 \/ should_despawn(v) THEN v
  ELSE Frames(UpdateOne(v, [d \in Directions |-> "green"], speed_multiplier),
              speed_multiplier, n - 1)

\* the vehicle on the frame that carries it over its despawn boundary
RECURSIVE Journey(_, _)
Journey(v, speed_multiplier) ==
  LET v2 == Frames(v, speed_multiplier, 16)
  IN IF should_despawn(v2) THEN v2 ELSE Journey(v2, speed_multiplier)

\* C13: while the simulation runs, a frame raises the served counter of a class by
\* the number of vehicles of that class it removes at their despawn boundary, a
\* removed car raises no counter, and no other step changes a served counter
C13_ServedOncePerJourney ==
  [][ui'.is_running =>
       /\ registry'.amb_served_var = registry.amb_served_var
            + (IF FrameStep THEN Removed("ambulance") ELSE 0)
       /\ registry'.fire_served_var = registry.fire_served_var
            + (IF FrameStep THEN Removed("firetruck") ELSE 0)]_vars

\* an ambulance has left over its despawn boundary and was counted once, and the
\* journey of every emergency vehicle from its spawn point ends with the flag set
\* that remove_vehicle tests
C13_Witness ==
  /\ ui.is_running
  /\ registry.amb_served_var = 1
  /\ registry.fire_served_var = 0
  /\ ~HasId(registry.vehicles, 0)
  /\ frames > 0
  /\ \A d \in Directions, t \in EmergencyTypes, m \in SpeedMultipliers :
       Journey(Vehicle(0, d, t), m).has_passed_intersection

\* C14: whatever the state before, reset_simulation leaves the simulation stopped,
\* no vehicle, the three statistics at zero, the queue empty, no override, and the
\* controller in ns_green with state_timer = GREEN_TIME and north/south green,
\* east/west red
C14_ResetState ==
  [][ResetSimulation => AfterReset']_vars

\* a reset of the running program, after an emergency spawn and some frames
C14_Witness ==
  /\ AfterReset
  /\ enqueued > 0
  /\ registry.vehicle_count > 1
  /\ frames > 0
  /\ tick_pending = 1
  /\ served # <<>>

\* C15: while the simulation is stopped the controller is not running and no
\* animation or spawn callback is scheduled; a _tick, an animation frame or a spawn
\* timer invoked then changes nothing and schedules nothing, so that the _tick
\* callback left over from before the stop only disappears
C15_StoppedTicksChangeNothing ==
  ~ui.is_running =>
    /\ ~controller.running
    /\ ~ui.animation_id /\ ~ui.spawn_id
    /\ run_tick(World) = World
    /\ start_animation(World) = World
    /\ \A rd \in Directions : start_spawning(World, rd) = World
    /\ tick_pending > 0 => tick_callback(World) = [World EXCEPT !.tick_pending = @ - 1]

\* stopped in the middle of an override with vehicles on the road, and the _tick
\* callback that was scheduled before the stop has run
C15_Witness ==
  /\ ~ui.is_running
  /\ tick_pending = 0
  /\ registry.vehicles # <<>>
  /\ controller.override_active
  /\ frames > 0

\* C16: clear_all attributes no statistics: it leaves the ambulance-served and the
\* firetruck-served counter as they are, whatever vehicles it removes
C16_ClearAllKeepsCounters ==
  /\ clear_all(registry).amb_served_var = registry.amb_served_var
  /\ clear_all(registry).fire_served_var = registry.fire_served_var

\* C17: the clear of a reset leaves the vehicle list empty and the vehicle counter
\* at zero
C17_ClearResetsCount ==
  [][ResetSimulation =>
       /\ registry'.vehicles = <<>>
       /\ registry'.vehicle_count = 0]_vars

\* the signal map with the axis of a direction green and the cross axis red
AxisGreen(direction) ==
  [d \in Directions |->
     IF (d \in {"north", "south"}) = (direction \in {"north", "south"}) THEN "green" ELSE "red"]

\* C18: the step that starts an override removes exactly one request, the served
\* one, from the queue and keeps the others in place, sets override_active with
\* the request's direction, sets override_timer to EMERGENCY_TIME, and turns the
\* axis of that direction green and the cross axis red
C18_OverrideStart ==
  [][OverrideStarts =>
       \E i \in 1..Len(controller.emergency_queue) :
         /\ ServesIndex(i)
         /\ Len(controller'.emergency_queue) = Len(controller.emergency_queue) - 1
         /\ controller'.override_active
         /\ controller'.override_timer = FromInt(EMERGENCY_TIME)
         /\ controller'.signals = AxisGreen(controller.emergency_queue[i].direction)]_vars

\* one of two equal requests has been served and the other still waits
C18_Witness ==
  /\ controller.override_active
  /\ controller.override_timer = FromInt(EMERGENCY_TIME)
  /\ Len(served) = 1
  /\ controller.emergency_queue = <<served[1]>>
  /\ controller.signals = AxisGreen(served[1].direction)
  /\ enqueued = 2

\* C19: when an override ends, the queue it leaves holds no request for the
\* direction that was being served, and every request for another direction is kept
C19_EndOverrideClearsDirection ==
  [][OverrideLapses =>
       controller'.emergency_queue =
         OtherDirections(controller.emergency_queue, controller.override_direction)]_vars

\* the signal map of a phase of the normal cycle
PhaseMap(phase) ==
  IF phase = "ns_green" THEN NSGreenMap
  ELSE IF phase = "ns_yellow" THEN NSYellowMap
  ELSE IF phase = "ew_green" THEN EWGreenMap
  ELSE EWYellowMap

\* C20: whenever the controller is running, the signal map is the projection of
\* its state: during an override the axis of override_direction is green and the
\* cross axis red, otherwise the map is that of cycle_state
C20_SignalsProjection ==
  controller.running =>
    controller.signals =
      IF controller.override_active
      THEN AxisGreen(controller.override_direction)
      ELSE PhaseMap(controller.cycle_state)

\* C21: an axis that turns yellow was green immediately before, and an axis that
\* stops being yellow turns red: no step takes a signal from red to yellow or from
\* yellow to green
C21_YellowBetweenGreenAndRed ==
  [][\A d \in Directions :
       /\ (controller.signals[d] # "yellow" /\ controller'.signals[d] = "yellow")
            => controller.signals[d] = "green"
       /\ (controller.signals[d] = "yellow" /\ controller'.signals[d] # "yellow")
            => controller'.signals[d] = "red"]_vars

\* C22: after a frame a non-emergency vehicle is marked stopped only if, when the
\* frame looked at it, it was on the approach side of the centre, within STOP_DIST
\* of it, and its signal was not green; a vehicle that has crossed the centre is
\* never marked stopped
C22_StoppedOnlyOnApproach ==
  [][FrameStep =>
       \A i \in 1..Len(registry.vehicles) :
         LET v == registry.vehicles[i]
         IN (~IsEmergency(v) /\ Survives(v)) =>
              /\ After(v).stopped =>
                   /\ distance_to_center(v) >= 0
                   /\ distance_to_center(v) < HalfPx(STOP_DIST)
                   /\ controller'.signals[v.direction] # "green"
              /\ distance_to_center(v) < 0 => ~After(v).stopped]_vars

\* distance between two vehicles of one lane (they differ in one coordinate only)
Gap(v, u) ==
  (IF v.x >= u.x THEN v.x - u.x ELSE u.x - v.x) + (IF v.y >= u.y THEN v.y - u.y ELSE u.y - v.y)

\* C23: any two active vehicles heading the same direction are at least MIN_SPACING
\* apart, after any sequence of spawns and animation frames
C23_FollowingGap ==
  \A i, j \in 1..Len(registry.vehicles) :
    (i # j /\ registry.vehicles[i].direction = registry.vehicles[j].direction)
      => Gap(registry.vehicles[i], registry.vehicles[j]) >= HalfPx(MIN_SPACING)

\* C24: add_emergency adds exactly one request at the end of the queue and leaves
\* the queued requests, their order, the phase, the timers, the running flag and
\* the signals as they were, with or without an override active; when the
\* simulation is not running the button then starts it, and the controller is
\* what start makes of the controller with the request appended
C24_AppendOnly ==
  [][enqueued' = enqueued + 1 =>
       \E x \in Requests :
         LET c1 == [controller EXCEPT !.emergency_queue = Append(@, x)]
         IN controller' = IF ui.is_running THEN c1 ELSE start(c1)]_vars

\* a third request has been queued behind another while an override is active
C24_Witness ==
  /\ enqueued = 3
  /\ Len(controller.emergency_queue) = 2
  /\ controller.override_active

SamePlace(v, v2) == v2.x = v.x /\ v2.y = v.y

\* v2 is v moved by unit vector x class base speed x speed multiplier
Advanced(v, v2) ==
  /\ v2.x = v.x + velocities[v.direction][1] * _get_base_speed(v.vehicle_type) * ui.speed_var
  /\ v2.y = v.y + velocities[v.direction][2] * _get_base_speed(v.vehicle_type) * ui.speed_var

\* how far v2 is ahead of v along the direction of travel, and beside it across it
Along(v, v2) ==
  velocities[v.direction][1] * (v2.x - v.x) + velocities[v.direction][2] * (v2.y - v.y)
Across(v, v2) ==
  velocities[v.direction][2] * (v2.x - v.x) + velocities[v.direction][1] * (v2.y - v.y)

\* C25: in a frame a vehicle that is not stopped after the stop-line evaluation
\* moves by exactly unit vector x base speed x speed multiplier and a stopped one
\* stays where it is; in every step a vehicle keeps its coordinate across its
\* direction and never moves backwards along it
C25_ExactMovement ==
  [][\A i \in 1..Len(registry.vehicles) :
       LET v == registry.vehicles[i]
       IN Survives(v) =>
            /\ FrameStep => /\ After(v).stopped => SamePlace(v, After(v))
                            /\ ~After(v).stopped => Advanced(v, After(v))
            /\ Across(v, After(v)) = 0
            /\ Along(v, After(v)) >= 0
            /\ After(v).direction = v.direction]_vars

\* after a frame at speed 2.0 one vehicle waits at its signal and a car spawned
\* behind it has made its first move
C25_Witness ==
  /\ frames >= 1
  /\ ui.speed_var = 2
  /\ \E i, j \in 1..Len(registry.vehicles) :
       /\ registry.vehicles[i].stopped
       /\ ~registry.vehicles[j].stopped
       /\ registry.vehicles[j].id >= 1
       /\ SpawnDistance(registry.vehicles[j]) = 2 * CAR_BASE_SPEED

\* C26: at most one _tick callback is pending at any moment, after any sequence
\* of start and stop commands issued at any time relative to the callbacks
C26_OneTickPending == tick_pending <= 1

\* a _tick callback that found the controller running and left it running
WorkingTick ==
  /\ controller.running
  /\ controller'.running
  /\ enqueued' = enqueued

\* C27: a control tick that finds the controller running, no override active and
\* a request queued starts the override for the request get_next_emergency
\* chooses, and neither decrements the phase timer nor changes the phase,
\* whatever the phase and its remaining time
C27_ServedAtNextTick ==
  [][(/\ WorkingTick
      /\ ~controller.override_active
      /\ controller.emergency_queue # <<>>) =>
       /\ controller'.override_active
       /\ controller'.override_direction = get_next_emergency(controller).direction
       /\ served' = Append(served, get_next_emergency(controller))
       /\ controller'.state_timer = controller.state_timer
       /\ controller'.cycle_state = controller.cycle_state]_vars

\* an override has just started in the middle of the ew_yellow phase
C27_Witness ==
  /\ controller.running
  /\ controller.override_active
  /\ phase_ticks = 0
  /\ Len(served) = 1
  /\ controller.cycle_state = "ew_yellow"
  /\ controller.state_timer # FromInt(YELLOW_TIME)

GreenLostWithoutYellow ==
  \E d \in Directions :
    /\ controller.signals[d] = "green"
    /\ controller'.signals[d] \notin {"green", "yellow"}

\* C29 as stated: in every step in which an axis stops being green its new colour
\* is yellow, steps that start or end an override and start and reset included
C29_GreenThenYellow == [][~GreenLostWithoutYellow]_vars

\* C29 amended: in a tick of the normal cycle, with no override active before or
\* after it, an axis that stops being green turns yellow
C29_GreenThenYellowInCycle ==
  [][(/\ WorkingTick
      /\ ~controller.override_active
      /\ ~controller'.override_active) => ~GreenLostWithoutYellow]_vars

\* after an override the cycle has run on and its east/west green has just given
\* way to yellow
C29_Witness ==
  /\ controller.running
  /\ ~controller.override_active
  /\ Len(served) = 1
  /\ controller.cycle_state = "ew_yellow"
  /\ phase_ticks = 0
  /\ controller.signals["east"] = "yellow"

\* C30: while the simulation keeps running and its control ticks and animation
\* frames keep firing, a spawned vehicle of any class and direction reaches its
\* despawn boundary and is removed from the active collection
C30_EveryVehicleLeaves == <>(registry.vehicles = <<>>)

\* an ambulance has been served its override, has passed the intersection and
\* has been removed at its despawn boundary
C30_Witness ==
  /\ registry.vehicles = <<>>
  /\ registry.vehicle_count = 1
  /\ registry.amb_served_var = 1
  /\ Len(served) = 1
====
